---------------------------- MODULE Spec2Model ----------------------------
(***************************************************************************)
(* A model of service/vulsim_tcp.py: VulSimControlClient, the half-duplex  *)
(* request/response client, driven by caller threads against a TCP peer.   *)
(*                                                                         *)
(* Every access to a shared field of the client (self._sock, self.endian,  *)
(* self._lock) and every blocking socket operation is a step of its own,   *)
(* so that the interleavings of concurrent call()s are those of the code.  *)
(***************************************************************************)
EXTENDS Integers, Sequences, FiniteSets, TLC

(***************************************************************************)
(* Bounds of the model.                                                    *)
(***************************************************************************)
\* call() invocations in one run, over all threads.
MaxCalls == 2
\* Sockets that exist at one time (the one the client holds, one a read
\* still blocks on, one being dialed).
MaxSock == 3
\* call(), connect() and close() invocations in one run of a client that is
\* used through its whole public interface.
MaxOps == 3

Socks == 1..MaxSock

\* The threads that use the one client: the UI thread and ConnectionMonitor.
Threads == {"main", "monitor"}

(***************************************************************************)
(* Program constants.                                                      *)
(***************************************************************************)
MAGIC == 928289376
\* 10 * 1024 * 1024
MaxPayload == 10485760

None == 0
NoThread == ""
Endians == {"<", ">"}

(***************************************************************************)
(* struct.pack / struct.unpack of "II" in either byte order.               *)
(***************************************************************************)
Byte(n, i) == (n \div (256 ^ i)) % 256

Pack32(e, n) ==
  IF e = "<" THEN << Byte(n, 0), Byte(n, 1), Byte(n, 2), Byte(n, 3) >>
             ELSE << Byte(n, 3), Byte(n, 2), Byte(n, 1), Byte(n, 0) >>

\* The number whose bytes, lowest first, are b.  Numbers from 2^31 on are
\* beyond the integers of the model checker: each of them is kept as
\* 2^31 - 1, which like them is not the magic and is more than ten megabytes
\* and than any stream here holds.
Number(b) ==
  IF b[4] >= 128 THEN 127 * 16777216 + 16777215
  ELSE b[1] + 256 * b[2] + 65536 * b[3] + 16777216 * b[4]

\* An unpack that reads little-endian whatever the byte order is.
Unpack32Little(e, b) == Number(b)

Unpack32(e, b) ==
  IF e = "<" THEN Number(b) ELSE Number(<< b[4], b[3], b[2], b[1] >>)

PackHeader(e, magic, length) == Pack32(e, magic) \o Pack32(e, length)

UnpackHeader(e, hdr) ==
  [magic  |-> Unpack32(e, SubSeq(hdr, 1, 4)),
   length |-> Unpack32(e, SubSeq(hdr, 5, 8))]

\* The UTF-8 bytes of _json_dumps({"name": "info", "args": []}).
ReqBytes ==
  << 123, 34, 110, 97, 109, 101, 34, 58, 34, 105, 110, 102, 111, 34, 44,
     34, 97, 114, 103, 115, 34, 58, 91, 93, 125 >>

\* _pack: the header in the client's byte order, then the payload.
PackRequest(e, r) == [hdr |-> PackHeader(e, MAGIC, Len(ReqBytes)), req |-> r]

(***************************************************************************)
(* Values call() hands back.                                               *)
(***************************************************************************)
NoReq == << "", 0, 0 >>
ClientError(m, d) == [kind |-> "dict", code |-> -1, msg |-> m, detail |-> d, req |-> NoReq]
CannotConnect == ClientError("Cannot connect to server", "")
CommError(e) == ClientError("Communication error", e)
InternalError == ClientError("Unexpected internal error", "")

\* The exceptions of the first except clause of call().
TransportExc == {"ConnectionError", "timeout", "VulSimProtocolError"}

\* What connect() returns (True, False) and what close() returns (None).
BoolValue(b) == [kind |-> "bool", code |-> IF b THEN 1 ELSE 0, msg |-> "", detail |-> "",
                 req |-> NoReq]
NoValue == [kind |-> "nothing", code |-> 0, msg |-> "", detail |-> "", req |-> NoReq]

Returned(v) == [raised |-> FALSE, exc |-> "", val |-> v]
Raised(x) == [raised |-> TRUE, exc |-> x, val |-> ClientError("", "")]
NoResult == Returned(ClientError("", ""))

(***************************************************************************)
(* The peer: what a server may put on the wire in answer to a request.     *)
(***************************************************************************)
\* The JSON documents of a response: an object with a code, and payloads
\* that json.loads refuses, that are no object, or that never arrive whole.
Doc(kind, code, r) == [kind |-> kind, code |-> code, msg |-> "", detail |-> "", req |-> r]

NoDoc == Doc("none", 0, NoReq)

BodyLen(doc) == IF doc.kind = "dict" THEN (IF doc.code = 0 THEN 10 ELSE 23) ELSE 2

Frame(e, magic, length, doc) == [hdr |-> PackHeader(e, magic, length), body |-> doc]

\* A server that frames in byte order e reads the request header in e.
Understood(e, request) == UnpackHeader(e, request.hdr).magic = MAGIC

\* The answers of a server that works: a well-formed frame in its byte order,
\* whose code is the backend's (0, or an error; an error for a request it
\* could not read).
GoodFrames(e, request) ==
  LET codes == IF Understood(e, request) THEN {0, 7} ELSE {7}
  IN  { Frame(e, MAGIC, BodyLen(Doc("dict", c, request.req)), Doc("dict", c, request.req)) :
          c \in codes }

\* What a faulty peer or a corrupted stream may deliver instead.
BadFrames(e, request) ==
  { Frame(e, MAGIC + 1, 10, Doc("dict", 0, request.req)),
    Frame(e, MAGIC, MaxPayload + 1, Doc("dict", 0, request.req)),
    Frame(e, MAGIC, 2, Doc("short", 0, request.req)),
    Frame(e, MAGIC, 2, Doc("badjson", 0, request.req)),
    Frame(e, MAGIC, 2, Doc("nondict", 0, request.req)) }

(***************************************************************************)
(* Bytes and text.  A payload may hold ten megabytes, so bytes and          *)
(* characters are kept as runs: << [b |-> 97, n |-> 3] >> is "aaa".          *)
(***************************************************************************)
Run(b, n) == [b |-> b, n |-> n]

\* One run per element of a sequence of bytes.
Runs(bs) == [i \in 1..Len(bs) |-> Run(bs[i], 1)]

\* acc with n times b appended; adjacent runs of one byte are one run.
Push(acc, b, n) ==
  IF n = 0 THEN acc
  ELSE IF acc # << >> /\ acc[Len(acc)].b = b
    THEN [acc EXCEPT ![Len(acc)].n = @ + n]
    ELSE Append(acc, Run(b, n))

\* a followed by c, both with no two adjacent runs of one byte.
Cat(a, c) ==
  IF a = << >> THEN c
  ELSE IF c = << >> THEN a
  ELSE IF a[Len(a)].b = c[1].b
    THEN [a EXCEPT ![Len(a)].n = @ + c[1].n] \o Tail(c)
    ELSE a \o c

\* rs with adjacent runs of one byte made one run.
RECURSIVE Merged(_, _)
Merged(acc, rs) == IF rs = << >> THEN acc ELSE Merged(Push(acc, rs[1].b, rs[1].n), Tail(rs))

RECURSIVE RunLen(_)
RunLen(rs) == IF rs = << >> THEN 0 ELSE rs[1].n + RunLen(Tail(rs))

\* The first k bytes of rs (all of rs when it is shorter), and the rest.
RECURSIVE Take(_, _)
Take(rs, k) ==
  IF k = 0 \/ rs = << >> THEN << >>
  ELSE IF rs[1].n >= k THEN << Run(rs[1].b, k) >>
  ELSE << rs[1] >> \o Take(Tail(rs), k - rs[1].n)

RECURSIVE Drop(_, _)
Drop(rs, k) ==
  IF k = 0 \/ rs = << >> THEN rs
  ELSE IF rs[1].n > k THEN << Run(rs[1].b, rs[1].n - k) >> \o Tail(rs)
  ELSE Drop(Tail(rs), k - rs[1].n)

\* rs written n times.
RECURSIVE Times(_, _)
Times(rs, n) == IF n = 0 THEN << >> ELSE Cat(rs, Times(rs, n - 1))

\* str.encode("utf-8"): a character below 128 is one byte, one below 2048 two.
Utf8Char(c) ==
  IF c < 128 THEN << Run(c, 1) >>
  ELSE << Run(192 + (c \div 64), 1), Run(128 + (c % 64), 1) >>

\* A text of characters below 128 is its own encoding.
RECURSIVE Utf8Encode(_)
Utf8Encode(cs) ==
  IF \A i \in 1..Len(cs) : cs[i].b < 128 THEN cs
  ELSE IF cs[1].b < 128 THEN Cat(<< cs[1] >>, Utf8Encode(Tail(cs)))
  ELSE Cat(Times(Utf8Char(cs[1].b), cs[1].n), Utf8Encode(Tail(cs)))

NoText == << Run(-1, 1) >>

\* bytes.decode("utf-8"): NoText stands for UnicodeDecodeError.  A lead byte
\* of a two-byte character must be followed by a continuation byte; a
\* continuation byte alone fails (the characters here are below 2048).
RECURSIVE Utf8Decode(_, _)
Utf8Decode(bs, acc) ==
  IF \A i \in 1..Len(bs) : bs[i].b < 128 THEN Cat(acc, bs)
  ELSE LET b == bs[1].b
       IN  IF b < 128 THEN Utf8Decode(Tail(bs), Push(acc, b, bs[1].n))
           ELSE IF b >= 194 /\ b < 224 /\ RunLen(bs) >= 2
             THEN LET rest == Drop(bs, 1)
                  IN  IF rest[1].b >= 128 /\ rest[1].b < 192
                        THEN Utf8Decode(Drop(rest, 1),
                                        Push(acc, (b - 192) * 64 + (rest[1].b - 128), 1))
                        ELSE NoText
           ELSE NoText

\* str.strip('\x00'), bytes.rstrip(b"\x00")
LStrip(rs) == IF rs # << >> /\ rs[1].b = 0 THEN Tail(rs) ELSE rs
RStrip(rs) == IF rs # << >> /\ rs[Len(rs)].b = 0 THEN SubSeq(rs, 1, Len(rs) - 1) ELSE rs
Strip(rs) == RStrip(LStrip(rs))

(***************************************************************************)
(* JSON values, json.dumps with separators (",", ":") and ensure_ascii      *)
(* False, and json.loads.  A value is a string of characters, an integer    *)
(* (its digits), an array, or an object (items: key, value, key, value).    *)
(***************************************************************************)
JStr(cs) == [t |-> "str", s |-> cs, items |-> << >>]
JInt(ds) == [t |-> "int", s |-> ds, items |-> << >>]
JArr(xs) == [t |-> "arr", s |-> << >>, items |-> xs]
JObj(kv) == [t |-> "obj", s |-> << >>, items |-> kv]
\* What stands for an exception where a value is expected.
JFail(x) == [t |-> x, s |-> << >>, items |-> << >>]

\* A json.dumps that writes every character as it is.
EscapeNothing(c) == << Run(c, 1) >>

\* json.dumps writes a control character as \u00XX (NUL is \u0000), and a
\* quote or a backslash after a backslash.
EscapeChar(c) ==
  IF c = 0 THEN << Run(92, 1), Run(117, 1), Run(48, 4) >>
  ELSE IF c = 34 THEN << Run(92, 1), Run(34, 1) >>
  ELSE IF c = 92 THEN << Run(92, 2) >>
  ELSE << Run(c, 1) >>

RECURSIVE DumpChars(_)
DumpChars(cs) ==
  IF cs = << >> THEN << >>
  ELSE LET c == cs[1].b
       IN  Cat(IF EscapeChar(c) = << Run(c, 1) >> THEN << cs[1] >>
               ELSE Times(EscapeChar(c), cs[1].n),
               DumpChars(Tail(cs)))

\* _json_dumps, lines 26-28: the text of a value, as characters.
RECURSIVE JsonDumps(_)
RECURSIVE DumpItems(_, _, _)
DumpItems(xs, i, isObj) ==
  IF i > Len(xs) THEN << >>
  ELSE LET sep == IF i = 1 THEN << >>
                  ELSE IF isObj /\ i % 2 = 0 THEN << Run(58, 1) >>
                  ELSE << Run(44, 1) >>
       IN  Cat(Cat(sep, JsonDumps(xs[i])), DumpItems(xs, i + 1, isObj))

JsonDumps(v) ==
  IF v.t = "str" THEN Cat(Cat(<< Run(34, 1) >>, DumpChars(v.s)), << Run(34, 1) >>)
  ELSE IF v.t = "int" THEN v.s
  ELSE IF v.t = "arr" THEN Cat(Cat(<< Run(91, 1) >>, DumpItems(v.items, 1, FALSE)), << Run(93, 1) >>)
  ELSE Cat(Cat(<< Run(123, 1) >>, DumpItems(v.items, 1, TRUE)), << Run(125, 1) >>)

\* The scanner of json.loads: the next character, the text after it, the
\* text after the white space it starts with.
Peek(cs) == IF cs = << >> THEN -1 ELSE cs[1].b
Adv(cs) == Drop(cs, 1)
SkipWs(cs) == IF Peek(cs) = 32 THEN Tail(cs) ELSE cs

Parsed(v, rest) == [ok |-> TRUE, v |-> v, rest |-> rest]
NoParse == [ok |-> FALSE, v |-> JFail("JSONDecodeError"), rest |-> << >>]

\* The rest of a string after its opening quote: up to the closing quote.
\* After a backslash, a quote or a backslash is that character and u0000 is
\* NUL; a control character as it is ends the parse.
RECURSIVE ParseString(_, _)
ParseString(cs, acc) ==
  IF cs = << >> THEN NoParse
  ELSE LET c == cs[1].b
       IN  IF c = 34 THEN Parsed(JStr(acc), Adv(cs))
           ELSE IF c = 92
             THEN LET esc == Adv(cs)
                      e == Peek(esc)
                  IN  IF e \in {34, 92} THEN ParseString(Adv(esc), Push(acc, e, 1))
                      ELSE IF Take(esc, 5) = << Run(117, 1), Run(48, 4) >>
                        THEN ParseString(Drop(esc, 5), Push(acc, 0, 1))
                      ELSE NoParse
           ELSE IF c < 32 THEN NoParse
           ELSE ParseString(Tail(cs), Push(acc, c, cs[1].n))

\* An integer: 0, or digits that do not start with 0.
ParseInt(cs) ==
  IF cs[1].b = 48 THEN Parsed(JInt(<< Run(48, 1) >>), Adv(cs))
  ELSE LET digits(k) == \A i \in 1..k : cs[i].b \in 48..57
           n == CHOOSE k \in 1..Len(cs) :
                  digits(k) /\ (k = Len(cs) \/ cs[k + 1].b \notin 48..57)
       IN  Parsed(JInt(SubSeq(cs, 1, n)), SubSeq(cs, n + 1, Len(cs)))

RECURSIVE ParseValue(_)
RECURSIVE ParseItems(_, _, _)
\* The items of an array or object after the first: "," item ... then the
\* closing bracket; in an object an item is  string ":" value.
ParseItem(cs, isObj) ==
  IF ~isObj THEN ParseValue(cs)
  ELSE IF Peek(cs) # 34 THEN NoParse
  ELSE LET k == ParseString(Adv(cs), << >>)
       IN  IF ~k.ok \/ Peek(SkipWs(k.rest)) # 58 THEN NoParse
           ELSE LET v == ParseValue(SkipWs(Adv(SkipWs(k.rest))))
                IN  IF v.ok THEN Parsed(<< k.v, v.v >>, v.rest) ELSE NoParse

ParseItems(cs, acc, isObj) ==
  LET it == ParseItem(cs, isObj)
      close == IF isObj THEN 125 ELSE 93
  IN  IF ~it.ok THEN NoParse
      ELSE LET got == IF isObj THEN acc \o it.v ELSE Append(acc, it.v)
               rest == SkipWs(it.rest)
           IN  IF Peek(rest) = close
                 THEN Parsed(IF isObj THEN JObj(got) ELSE JArr(got), Adv(rest))
               ELSE IF Peek(rest) = 44 THEN ParseItems(SkipWs(Adv(rest)), got, isObj)
               ELSE NoParse

ParseValue(cs) ==
  LET c == Peek(cs)
  IN  IF c = 34 THEN ParseString(Adv(cs), << >>)
      ELSE IF c \in 48..57 THEN ParseInt(cs)
      ELSE IF c = 91
        THEN IF Peek(SkipWs(Adv(cs))) = 93
               THEN Parsed(JArr(<< >>), Adv(SkipWs(Adv(cs))))
               ELSE ParseItems(SkipWs(Adv(cs)), << >>, FALSE)
      ELSE IF c = 123
        THEN IF Peek(SkipWs(Adv(cs))) = 125
               THEN Parsed(JObj(<< >>), Adv(SkipWs(Adv(cs))))
               ELSE ParseItems(SkipWs(Adv(cs)), << >>, TRUE)
      ELSE NoParse

\* json.loads: one value with white space around it, nothing else.
JsonLoads(cs) ==
  LET r == ParseValue(SkipWs(cs))
  IN  IF r.ok /\ SkipWs(r.rest) = << >> THEN r.v ELSE JFail("JSONDecodeError")

\* Well-framed JSON objects whose code is not an integer: no code key, the
\* code as a string of digits, the code as a string int() refuses.
OddFrames(e, request) ==
  { Frame(e, MAGIC, 2, Doc(k, 0, request.req)) : k \in {"nocode", "strcode", "textcode"} }

(***************************************************************************)
(* State.                                                                  *)
(***************************************************************************)
VARIABLES
  sock,         \* self._sock: None, or the socket the client holds
  endian,       \* self.endian
  lock,         \* self._lock: NoThread, or the thread that holds it
  conn,         \* per socket: its state, the requests written to it that the
                \* peer has not answered, the frames the peer sent, and
                \* whether the header of the first of them was consumed
  serverEndian, \* the byte order the peer frames in
  peer,         \* "good": reachable, answers every request well-formed and in
                \* time; "slow": the same, but not always in time; "faulty":
                \* the peer and the network may fail in every way
  active,       \* the threads that call
  scope,        \* "calls": the client is used through call() with Arg and
                \* dict arguments, and an object the peer sends carries an
                \* integer code; "any": connect(), close() and call() with
                \* any args list, a peer that sends any JSON document
  th,           \* per thread: where it is in call() and its local variables
  result,       \* per thread: what its last call() returned or raised
  g,            \* per thread: the history of its current call
  owner,        \* the thread whose request is on the wire, its read not ended
  interleaved,  \* a socket read or write happened inside another call's pair
  codec,        \* one inbound byte stream and what _recv_packet of the control
                \* client and of the log client make of it
  logc,         \* the VulSimLogClient: _sock, _stop_evt, _th, endian, and
                \* whether on_log and on_error are given
  ctl,          \* the thread that calls start() and stop() on the log client:
                \* where it is, and what its calls found and did
  run,          \* per thread the log client spawned: where it is in _run, its
                \* socket, and what it did
  mon           \* ConnectionMonitor: fail_count and what it emitted

client == << sock, endian, lock >>
logv == << logc, ctl, run >>
world == << serverEndian, peer, active, scope, logv, mon >>
envv == << serverEndian, peer, active, scope, codec, logv, mon >>
wire == << owner, interleaved >>
vars == << sock, endian, lock, conn, serverEndian, peer, active, scope, th,
           result, g, owner, interleaved, codec, logc, ctl, run, mon >>

FreshConn == [st |-> "none", reqs |-> << >>, inbox |-> << >>, mid |-> FALSE]
Ended(st) == [st |-> st, reqs |-> << >>, inbox |-> << >>, mid |-> FALSE]
NoData == [hdr |-> << >>, req |-> NoReq]

\* A thread outside call(): pc, the loop variable attempt, the number of
\* call()s it made, the frame _pack built, the socket a blocking recv was
\* started on, the exception being handled, the method it is in, and the
\* args list of the call.
Idle(pc, attempt, calls) ==
  [pc |-> pc, attempt |-> attempt, calls |-> calls, data |-> NoData, rsock |-> None,
   exc |-> "", op |-> "call", args |-> "valid"]

\* The history of a call: the exception that ended each attempt, what the
\* call did so far, the byte order stored when it began, the document of
\* the frame it decoded; which method it is, and the handle a connect() or
\* close() found.
NoHistory ==
  [fault |-> << "", "" >>, flips |-> 0, closes |-> 0, writes |-> 0, dials |-> 0,
   e0 |-> "", got |-> NoDoc, op |-> "call", s0 |-> None]

\* A decoder that has not begun, and one with nothing to decode.
Decoder(pc) == [pc |-> pc, length |-> 0, read |-> 0, out |-> JFail("")]

\* The args list of a call(): none where no call is made.
NoArgs == [given |-> FALSE, list |-> << >>]
ArgList(as) == [given |-> TRUE, list |-> as]

\* A stream: the byte order e of the decoders, the header bytes and the
\* payload bytes that follow; where it was packed here, the payload object p;
\* the byte order o and the magic m the header was packed with; where the
\* payload object is the request of a call(), the args list of the call.
Stream(e, p, hdr, pay, o, m) ==
  [e |-> e, p |-> p, hdr |-> hdr, pay |-> pay, o |-> o, m |-> m,
   ctl |-> Decoder("idle"), log |-> Decoder("idle"), args |-> NoArgs]

NoCodec ==
  [e |-> "<", p |-> JFail(""), hdr |-> << >>, pay |-> << >>, o |-> "<", m |-> MAGIC,
   ctl |-> Decoder("off"), log |-> Decoder("off"), args |-> NoArgs]

\* VulSimControlClient.__init__: no socket, the lock free, endian as given.
InitClient(p, act, es, sc) ==
  /\ sock = None
  /\ endian \in es
  /\ lock = NoThread
  /\ conn = [s \in Socks |-> FreshConn]
  /\ serverEndian \in Endians
  /\ peer = p
  /\ active = act
  /\ scope = sc
  /\ th = [t \in Threads |-> Idle("idle", 0, 0)]
  /\ result = [t \in Threads |-> NoResult]
  /\ g = [t \in Threads |-> NoHistory]
  /\ owner = NoThread
  /\ interleaved = FALSE

\* No log client is made, and no monitor thread runs.
NoLog ==
  /\ logc = [sock |-> None, stop_evt |-> FALSE, th |-> None, endian |-> "<",
             on_log |-> FALSE, on_error |-> FALSE]
  /\ ctl = [pc |-> "off", ops |-> 0, spawned |-> 0, last |-> "", found |-> FALSE]
  /\ run = << >>

\* ConnectionMonitor: fail_count, the rounds of its loop that are through,
\* and whether the last round emitted status_changed(True, ...) and
\* status_changed(False, ...).
Monitor(on) == [on |-> on, fail_count |-> 0, rounds |-> 0, up |-> FALSE, down |-> FALSE]
NoMonitor == Monitor(FALSE)

InitScope(p, act, es, sc) ==
  InitClient(p, act, es, sc) /\ codec = NoCodec /\ NoLog /\ mon = NoMonitor

InitWith(p, act, es) == InitScope(p, act, es, "calls")

\* One thread calls; the peer and the network may fail in every way.
Init == InitWith("faulty", {"main"}, Endians)
\* One thread calls a reachable peer that answers every request in time.
InitReliable == InitWith("good", {"main"}, Endians)
\* Both threads call such a peer, on the client the window constructs
\* (endian="<").
InitThreads == InitWith("good", Threads, {"<"})
\* Both threads call a peer that answers every request, not always in time.
InitThreadsSlow == InitWith("slow", Threads, {"<"})
\* One thread uses the whole public interface with any input; the peer and
\* the network may fail in every way and the peer may send any document.
InitAny == InitScope("faulty", {"main"}, Endians, "any")

(***************************************************************************)
(* Helpers of the actions.                                                 *)
(***************************************************************************)
Calls == LET n(t) == th[t].calls IN n("main") + n("monitor")
OpLimit == IF scope = "any" THEN MaxOps ELSE MaxCalls

\* The args lists a caller passes: Arg and dict elements that serialize
\* ("valid"); an element that is neither an Arg nor a dict ("unsupported");
\* an Arg whose index int() refuses ("badindex"); a dict holding a value
\* json.dumps refuses ("unserializable").
ArgLists ==
  IF scope = "any" THEN {"valid", "unsupported", "badindex", "unserializable"}
  ELSE {"valid"}

\* lines 150-160: the exception the loop over args raises, "" if none.
ArgsFault(a) ==
  IF a = "unsupported" THEN "TypeError"
  ELSE IF a = "badindex" THEN "ValueError"
  ELSE ""

\* The sockets something still refers to, given the handle and the threads.
Referenced(sk, thr) ==
  {sk} \cup { thr[t].rsock : t \in { u \in Threads : thr[u].pc \in {"hdr", "pay"} } }

\* A socket nothing refers to any more cannot be reached again: forget it.
Forget(c, sk, thr) ==
  [s \in Socks |-> IF s \in Referenced(sk, thr) THEN c[s] ELSE FreshConn]

FreeSock == CHOOSE s \in Socks : conn[s].st = "none" /\ \A u \in Socks : conn[u].st = "none" => s <= u

\* Flip that sets the byte order instead of swapping it.
FlipToLittle(e) == "<"

Flip(e) == IF e = "<" THEN ">" ELSE "<"

\* A lock that excludes nobody.
LockIgnored == TRUE

\* with self._lock: the lock is taken only when no thread holds it.
LockFree == lock = NoThread

\* The first except clause without VulSimProtocolError.
RetryableNoProtocol(x) == x \in {"ConnectionError", "timeout"}

\* A first except clause that takes every exception.
RetryableAll(x) == TRUE

\* except (ConnectionError, socket.timeout, VulSimProtocolError)
Retryable(x) == x \in TransportExc

\* A loop that goes on after its second attempt.
LastAttemptLater(a) == a = 2

\* for attempt in range(2): the attempt after which the loop ends.
LastAttempt(a) == a = 1

Note(t, f) == [g EXCEPT ![t].fault = [i \in 1..2 |-> IF i = th[t].attempt + 1 THEN f ELSE @[i]]]

\* A socket read or write by t: inside another call's pair, it interleaves.
Touch(t) == interleaved' = (interleaved \/ (owner # NoThread /\ owner # t))

At(t, l) == [th EXCEPT ![t].pc = l]
Out(t) == [th EXCEPT ![t] = Idle("done", th[t].attempt, th[t].calls)]

\* Throw without the second except clause: what is not retried leaves call().
ThrowEscapes(t, x, h) ==
  /\ lock' = IF lock = t THEN NoThread ELSE lock
  /\ owner' = IF owner = t THEN NoThread ELSE owner
  /\ g' = h
  /\ IF x \in TransportExc
       THEN /\ th' = [th EXCEPT ![t].pc = "L184", ![t].exc = x, ![t].rsock = None]
            /\ result' = result
       ELSE /\ th' = Out(t)
            /\ result' = [result EXCEPT ![t] = Raised(x)]

\* Exception x leaves the try block of call() in thread t (the with block
\* releases the lock on the way): the first except clause closes and retries,
\* the second returns the internal error.  h is the history to keep.
Throw(t, x, h) ==
  /\ lock' = IF lock = t THEN NoThread ELSE lock
  /\ owner' = IF owner = t THEN NoThread ELSE owner
  /\ g' = h
  /\ IF Retryable(x)
       THEN /\ th' = [th EXCEPT ![t].pc = "L184", ![t].exc = x, ![t].rsock = None]
            /\ result' = result
       ELSE /\ th' = Out(t)
            /\ result' = [result EXCEPT ![t] = Returned(InternalError)]

\* The end of close() inside the except clause: flip and retry after the
\* first attempt, the communication error after the second.
AfterClose(t) ==
  IF th[t].op = "close"
    THEN /\ th' = Out(t)
         /\ result' = [result EXCEPT ![t] = Returned(NoValue)]
  ELSE IF LastAttempt(th[t].attempt)
    THEN /\ th' = Out(t)
         /\ result' = [result EXCEPT ![t] = Returned(CommError(th[t].exc))]
    ELSE /\ th' = At(t, "L187")
         /\ result' = result

(***************************************************************************)
(* call(), lines 147-192.                                                  *)
(***************************************************************************)
\* A thread enters call(); the request object is built (lines 148-162).
\* An element the loop refuses raises there, before the try (lines 156, 160).
CallStart ==
  \E t \in active, a \in ArgLists :
    /\ th[t].pc \in {"idle", "done"}
    /\ Calls < OpLimit
    /\ IF ArgsFault(a) = ""
         THEN /\ th' = [th EXCEPT ![t] = [Idle("L166", 0, th[t].calls + 1) EXCEPT !.args = a]]
              /\ result' = [result EXCEPT ![t] = NoResult]
         ELSE /\ th' = [th EXCEPT ![t] = Idle("done", 0, th[t].calls + 1)]
              /\ result' = [result EXCEPT ![t] = Raised(ArgsFault(a))]
    /\ g' = [g EXCEPT ![t] = [NoHistory EXCEPT !.e0 = endian]]
    /\ UNCHANGED << client, conn, envv, wire >>

\* A thread calls connect() (line 81).
ConnectStart ==
  \E t \in active :
    /\ scope = "any"
    /\ th[t].pc \in {"idle", "done"}
    /\ Calls < OpLimit
    /\ th' = [th EXCEPT ![t] = [Idle("L83", 0, th[t].calls + 1) EXCEPT !.op = "connect"]]
    /\ result' = [result EXCEPT ![t] = NoResult]
    /\ g' = [g EXCEPT ![t] = [NoHistory EXCEPT !.e0 = endian, !.s0 = sock, !.op = "connect"]]
    /\ UNCHANGED << client, conn, envv, wire >>

\* A thread calls close() (line 98).
CloseStart ==
  \E t \in active :
    /\ scope = "any"
    /\ th[t].pc \in {"idle", "done"}
    /\ Calls < OpLimit
    /\ th' = [th EXCEPT ![t] = [Idle("L99", 0, th[t].calls + 1) EXCEPT !.op = "close"]]
    /\ result' = [result EXCEPT ![t] = NoResult]
    /\ g' = [g EXCEPT ![t] = [NoHistory EXCEPT !.e0 = endian, !.s0 = sock, !.op = "close"]]
    /\ UNCHANGED << client, conn, envv, wire >>

\* line 166: if not self._sock
CheckSock ==
  \E t \in active :
    /\ th[t].pc = "L166"
    /\ th' = At(t, IF sock = None THEN "L83" ELSE "L171")
    /\ UNCHANGED << client, conn, envv, result, g, wire >>

\* connect() returned True: to its caller, or back in call() at line 171.
Connected(t) ==
  IF th[t].op = "connect"
    THEN /\ th' = Out(t)
         /\ result' = [result EXCEPT ![t] = Returned(BoolValue(TRUE))]
    ELSE /\ th' = At(t, "L171")
         /\ result' = result

\* A connect() that dials whether or not it holds a socket.
ConnectCheckDials ==
  \E t \in active :
    /\ th[t].pc = "L83"
    /\ th' = At(t, "L86")
    /\ UNCHANGED << client, conn, envv, result, g, wire >>

\* connect(), line 83: if self._sock: return True
ConnectCheck ==
  \E t \in active :
    /\ th[t].pc = "L83"
    /\ IF sock # None THEN Connected(t) ELSE th' = At(t, "L86") /\ result' = result
    /\ UNCHANGED << client, conn, envv, g, wire >>

\* A connect() that lets the error of the dial out into call().
ConnectFailedRaises(t) ==
  /\ sock' = None
  /\ Throw(t, "ConnectionError", Note(t, "noconnect"))
  /\ conn' = Forget(conn, None, th')
  /\ UNCHANGED << endian, interleaved >>

\* A failed dial that puts the byte order back to the default.
ConnectFailedResets(t) ==
  /\ sock' = None
  /\ endian' = "<"
  /\ th' = Out(t)
  /\ conn' = Forget(conn, None, th')
  /\ g' = Note(t, "noconnect")
  /\ result' = [result EXCEPT ![t] =
                  Returned(IF th[t].op = "connect" THEN BoolValue(FALSE) ELSE CannotConnect)]
  /\ UNCHANGED << lock, wire >>

\* connect() lines 93-96 and call() lines 167-169: the dial failed; the
\* handle is cleared, connect() returns False and call() the connect error.
ConnectFailed(t) ==
  /\ sock' = None
  /\ th' = Out(t)
  /\ conn' = Forget(conn, None, th')
  /\ g' = Note(t, "noconnect")
  /\ result' = [result EXCEPT ![t] =
                  Returned(IF th[t].op = "connect" THEN BoolValue(FALSE) ELSE CannotConnect)]
  /\ UNCHANGED << endian, lock, wire >>

\* How s.connect may end: a faulty network times out, refuses, or fails
\* with another OSError (no route, name not resolved).
DialOutcomes ==
  IF peer = "faulty" THEN {"ok", "timeout", "ConnectionRefusedError", "OSError"} ELSE {"ok"}

\* An except clause of connect() that leaves OSError out.
DialCaughtNoOSError(x) == x \in {"timeout", "ConnectionRefusedError"}

\* line 93: except (socket.timeout, ConnectionRefusedError, OSError)
DialCaught(x) == x \in {"timeout", "ConnectionRefusedError", "OSError"}

\* An exception connect() does not catch leaves it: to the caller of
\* connect(), or into the try block of call().
ConnectRaises(t, x) ==
  /\ sock' = sock
  /\ conn' = conn
  /\ IF th[t].op = "connect"
       THEN /\ th' = Out(t)
            /\ result' = [result EXCEPT ![t] = Raised(x)]
            /\ g' = Note(t, "raised")
            /\ UNCHANGED << lock, owner >>
       ELSE Throw(t, x, Note(t, x))
  /\ UNCHANGED << endian, interleaved >>

\* connect(), lines 85-96: dial; store the socket, or clear the handle and
\* make call() return the connect error (lines 167-169).
Dial ==
  \E t \in active :
    /\ th[t].pc = "L86"
    /\ \E s \in Socks : conn[s].st = "none"
    /\ \E o \in DialOutcomes :
         IF o = "ok"
           THEN /\ sock' = FreeSock
                /\ Connected(t)
                /\ conn' = Forget([conn EXCEPT ![FreeSock].st = "open"], FreeSock, th')
                /\ g' = [g EXCEPT ![t].dials = @ + 1]
                /\ UNCHANGED << endian, lock, wire >>
           ELSE IF DialCaught(o) THEN ConnectFailed(t) ELSE ConnectRaises(t, o)
    /\ UNCHANGED envv

\* line 171: data = self._pack(req_obj), in the byte order stored now
Pack ==
  \E t \in active :
    /\ th[t].pc = "L171"
    /\ IF th[t].args = "unserializable"
         THEN Throw(t, "TypeError", Note(t, "TypeError"))
         ELSE /\ th' = [th EXCEPT ![t].pc = "L172",
                                  ![t].data = PackRequest(endian, << t, th[t].calls, th[t].attempt >>)]
              /\ UNCHANGED << lock, result, g, owner >>
    /\ UNCHANGED << sock, endian, conn, envv, interleaved >>

\* line 172: with self._lock
AcquireLock ==
  \E t \in active :
    /\ th[t].pc = "L172"
    /\ LockFree
    /\ lock' = t
    /\ th' = At(t, "L173")
    /\ UNCHANGED << sock, endian, conn, envv, result, g, wire >>

\* line 173: if not self._sock: raise ConnectionError("Lost connection")
CheckLost ==
  \E t \in active :
    /\ th[t].pc = "L173"
    /\ IF sock = None
         THEN Throw(t, "ConnectionError", Note(t, "ConnectionError"))
         ELSE /\ th' = At(t, "L174")
              /\ UNCHANGED << lock, result, g, owner >>
    /\ UNCHANGED << sock, endian, conn, envv, interleaved >>

\* What sendall may do on socket s: a socket closed under the caller gives
\* EBADF, a plain OSError; a broken connection an error; a working peer
\* takes the bytes.
SendOutcomes(s) ==
  IF conn[s].st = "closed" THEN {"OSError"}
  ELSE IF conn[s].st = "broken" THEN {"ConnectionError", "OSError"}
  ELSE IF peer = "faulty" THEN {"ok", "ConnectionError", "timeout", "OSError"}
  ELSE {"ok"}

\* The connection after a socket operation on it ended with x.
After(c, s, x) ==
  IF x \in {"ConnectionError", "OSError"} /\ c[s].st = "open"
    THEN [c EXCEPT ![s] = Ended("broken")]
    ELSE c

\* line 174: self._sock.sendall(data)
SendAll ==
  \E t \in active :
    /\ th[t].pc = "L174"
    /\ IF sock = None
         THEN /\ Throw(t, "AttributeError", Note(t, "AttributeError"))
              /\ UNCHANGED << conn, interleaved >>
         ELSE \E o \in SendOutcomes(sock) :
                IF o = "ok"
                  THEN /\ conn' = [conn EXCEPT ![sock].reqs = Append(@, th[t].data)]
                       /\ g' = [g EXCEPT ![t].writes = @ + 1]
                       /\ owner' = t
                       /\ Touch(t)
                       /\ th' = At(t, "L120")
                       /\ UNCHANGED << lock, result >>
                  ELSE /\ Throw(t, o, Note(t, o))
                       /\ conn' = After(conn, sock, o)
                       /\ UNCHANGED interleaved
    /\ UNCHANGED << sock, endian, envv >>

(***************************************************************************)
(* _recv_packet(), lines 119-145, and _recv_exact, lines 31-38.            *)
(***************************************************************************)
\* How a blocking read on socket s may end.  Closed under the reader: EBADF
\* or the timeout.  Bytes there: they are read.  Nothing there: a working
\* peer that owes an answer sends it in time; otherwise the read times out,
\* or the connection breaks.
RecvOutcomes(s) ==
  IF conn[s].st = "closed" THEN {"OSError", "timeout"}
  ELSE IF conn[s].st = "broken" THEN {"ConnectionError", "OSError"}
  ELSE IF conn[s].inbox # << >> THEN {"data"}
  ELSE IF peer = "good" THEN (IF conn[s].reqs = << >> THEN {"timeout"} ELSE {})
  ELSE IF peer = "slow" THEN {"timeout"}
  ELSE {"timeout", "ConnectionError", "OSError"}

\* A length check that refuses ten megabytes too.
HeaderFaultInclusive(e, hdr) ==
  LET h == UnpackHeader(e, hdr)
  IN  IF h.magic # MAGIC THEN "Bad magic"
      ELSE IF h.length >= MaxPayload THEN "Payload too large"
      ELSE ""

\* lines 129-137: unpack the header in the byte order stored now, check it.
HeaderFault(e, hdr) ==
  LET h == UnpackHeader(e, hdr)
  IN  IF h.magic # MAGIC THEN "Bad magic"
      ELSE IF h.length > MaxPayload THEN "Payload too large"
      ELSE ""

\* line 120: if not self._sock: raise ConnectionError("Not connected")
RecvCheck ==
  \E t \in active :
    /\ th[t].pc = "L120"
    /\ IF sock = None
         THEN Throw(t, "ConnectionError", Note(t, "ConnectionError"))
         ELSE /\ th' = At(t, "L125")
              /\ UNCHANGED << lock, result, g, owner >>
    /\ UNCHANGED << sock, endian, conn, envv, interleaved >>

\* line 125: _recv_exact(self._sock, 8) is entered with the handle as it is
RecvHeaderBegin ==
  \E t \in active :
    /\ th[t].pc = "L125"
    /\ IF sock = None
         THEN Throw(t, "AttributeError", Note(t, "AttributeError"))
         ELSE /\ th' = [th EXCEPT ![t].pc = "hdr", ![t].rsock = sock]
              /\ UNCHANGED << lock, result, g, owner >>
    /\ UNCHANGED << sock, endian, conn, envv, interleaved >>

\* lines 125-137: the 8 bytes arrive (or the read fails) and are checked.
\* Bytes read where no frame starts (the rest of a frame whose header was
\* taken) are JSON text, never the magic.
RecvHeader ==
  \E t \in active :
    /\ th[t].pc = "hdr"
    /\ \E o \in RecvOutcomes(th[t].rsock) :
         IF o = "data"
           THEN LET s == th[t].rsock
                    f == Head(conn[s].inbox)
                    bad == IF conn[s].mid THEN "Bad magic" ELSE HeaderFault(endian, f.hdr)
                IN  /\ Touch(t)
                    /\ IF bad # ""
                         THEN Throw(t, "VulSimProtocolError", Note(t, bad))
                         ELSE /\ th' = [th EXCEPT ![t].pc = "L140", ![t].rsock = None]
                              /\ UNCHANGED << lock, result, g, owner >>
                    /\ conn' = Forget([conn EXCEPT ![s].mid = TRUE], sock, th')
           ELSE /\ Throw(t, o, Note(t, o))
                /\ conn' = Forget(After(conn, th[t].rsock, o), sock, th')
                /\ UNCHANGED interleaved
    /\ UNCHANGED << sock, endian, envv >>

\* line 140: _recv_exact(self._sock, length) is entered
RecvPayloadBegin ==
  \E t \in active :
    /\ th[t].pc = "L140"
    /\ IF sock = None
         THEN Throw(t, "AttributeError", Note(t, "AttributeError"))
         ELSE /\ th' = [th EXCEPT ![t].pc = "pay", ![t].rsock = sock]
              /\ UNCHANGED << lock, result, g, owner >>
    /\ UNCHANGED << sock, endian, conn, envv, interleaved >>

\* How reading the payload of frame f ends once bytes are there: "" when the
\* payload is whole and json.loads gives an object.  mid says the header of f
\* was consumed: if not, the bytes read start with a header and do not decode.
PayloadEnds(f, mid) ==
  IF ~mid THEN {"ValueError", "timeout"}
  ELSE IF f.body.kind = "short" THEN {"timeout", "ConnectionError"}
  ELSE IF f.body.kind = "badjson" THEN {"ValueError"}
  ELSE IF f.body.kind = "nondict" THEN {"AttributeError"}
  ELSE IF f.body.kind = "textcode" THEN {"ValueError"}
  ELSE {""}

\* A return that turns a backend error into an error of the client.
ReturnValueChecked(resp) == IF resp.code # 0 THEN InternalError ELSE resp

\* lines 178-180: the code is looked at (and printed); resp is returned.
ReturnValue(resp) == resp

\* lines 140-145 and 175-180: the payload arrives and is decoded, the lock is
\* released, and call() returns the mapping.
RecvPayload ==
  \E t \in active :
    /\ th[t].pc = "pay"
    /\ \E o \in RecvOutcomes(th[t].rsock) :
         IF o = "data"
           THEN LET s == th[t].rsock
                    f == Head(conn[s].inbox)
                    taken == [conn EXCEPT ![s].inbox = Tail(@), ![s].mid = FALSE]
                IN  \E x \in PayloadEnds(f, conn[s].mid) :
                      /\ Touch(t)
                      /\ IF x = ""
                           THEN /\ lock' = IF lock = t THEN NoThread ELSE lock
                                /\ owner' = IF owner = t THEN NoThread ELSE owner
                                /\ g' = [g EXCEPT ![t].got = f.body]
                                /\ result' = [result EXCEPT ![t] = Returned(ReturnValue(f.body))]
                                /\ th' = Out(t)
                                /\ conn' = Forget(taken, sock, th')
                           ELSE /\ Throw(t, x, Note(t, x))
                                /\ conn' = Forget(IF x \in {"ValueError", "AttributeError"} /\ conn[s].mid
                                                    THEN taken
                                                    ELSE After([conn EXCEPT ![s].mid = TRUE], s, x),
                                                  sock, th')
           ELSE /\ Throw(t, o, Note(t, o))
                /\ conn' = Forget(After(conn, th[t].rsock, o), sock, th')
                /\ UNCHANGED interleaved
    /\ UNCHANGED << sock, endian, envv >>

(***************************************************************************)
(* The except clause of call(), lines 182-189, with close(), lines 98-103. *)
(***************************************************************************)
\* lines 184 and 99: self.close() is entered: if self._sock
CloseCheck ==
  \E t \in active :
    /\ th[t].pc \in {"L184", "L99"}
    /\ g' = [g EXCEPT ![t].closes = @ + 1]
    /\ IF sock = None THEN AfterClose(t) ELSE th' = At(t, "L101") /\ result' = result
    /\ UNCHANGED << client, conn, envv, wire >>

\* line 101: self._sock.close().  The handle is read again: with None there,
\* the AttributeError leaves close() through its finally (line 103) and,
\* raised inside the except clause, leaves call().
CloseSock ==
  \E t \in active :
    /\ th[t].pc = "L101"
    /\ IF sock = None
         THEN /\ th' = Out(t)
              /\ result' = [result EXCEPT ![t] = Raised("AttributeError")]
              /\ g' = Note(t, "raised")
              /\ conn' = conn
         ELSE /\ conn' = [conn EXCEPT ![sock] = Ended("closed")]
              /\ th' = At(t, "L103")
              /\ UNCHANGED << result, g >>
    /\ UNCHANGED << client, envv, wire >>

\* A close() that leaves the handle as it is.
ClearSockKeeps ==
  \E t \in active :
    /\ th[t].pc = "L103"
    /\ sock' = sock
    /\ AfterClose(t)
    /\ conn' = Forget(conn, sock, th')
    /\ UNCHANGED << endian, lock, envv, g, wire >>

\* line 103: self._sock = None; then lines 185-189
ClearSock ==
  \E t \in active :
    /\ th[t].pc = "L103"
    /\ sock' = None
    /\ AfterClose(t)
    /\ conn' = Forget(conn, None, th')
    /\ UNCHANGED << endian, lock, envv, g, wire >>

\* line 187: self.endian = ">" if self.endian == "<" else "<"; continue
FlipEndian ==
  \E t \in active :
    /\ th[t].pc = "L187"
    /\ endian' = Flip(endian)
    /\ th' = [th EXCEPT ![t].pc = "L166", ![t].attempt = @ + 1, ![t].exc = ""]
    /\ g' = [g EXCEPT ![t].flips = @ + 1]
    /\ UNCHANGED << sock, lock, conn, envv, result, wire >>

(***************************************************************************)
(* The peer answers the oldest request of a connection.                    *)
(***************************************************************************)
Replies(request) ==
  IF peer = "faulty"
    THEN GoodFrames(serverEndian, request) \cup BadFrames(serverEndian, request)
           \cup (IF scope = "any" THEN OddFrames(serverEndian, request) ELSE {})
    ELSE GoodFrames(serverEndian, request)

ServerReply ==
  \E s \in Socks :
    /\ conn[s].st = "open"
    /\ conn[s].reqs # << >>
    /\ \E f \in Replies(Head(conn[s].reqs)) :
         conn' = [conn EXCEPT ![s].reqs = Tail(@), ![s].inbox = Append(@, f)]
    /\ UNCHANGED << client, envv, th, result, g, wire >>

Next ==
  \/ CallStart
  \/ CheckSock
  \/ ConnectCheck
  \/ Dial
  \/ Pack
  \/ AcquireLock
  \/ CheckLost
  \/ SendAll
  \/ RecvCheck
  \/ RecvHeaderBegin
  \/ RecvHeader
  \/ RecvPayloadBegin
  \/ RecvPayload
  \/ CloseCheck
  \/ CloseSock
  \/ ClearSock
  \/ FlipEndian
  \/ ServerReply

\* The client used through its whole public interface.
NextAny ==
  \/ Next
  \/ ConnectStart
  \/ CloseStart

Spec == Init /\ [][Next]_vars
SpecReliable == InitReliable /\ [][Next]_vars
SpecThreads == InitThreads /\ [][Next]_vars
SpecThreadsSlow == InitThreadsSlow /\ [][Next]_vars
SpecAny == InitAny /\ [][NextAny]_vars

(***************************************************************************)
(* _recv_packet of both clients on one inbound byte stream, and _pack.      *)
(***************************************************************************)
\* The magic as a reader in the other byte order sees it.
SwappedMagic == Number(Pack32(">", MAGIC))

\* Bytes of payloads: text, text between NUL bytes, no JSON, no UTF-8, and
\* white space before a digit that fills ten megabytes and one byte more.
Payloads ==
  { << >>,
    << Run(55, 1) >>,
    << Run(123, 1), Run(125, 1) >>,
    << Run(0, 1), Run(55, 1) >>,
    << Run(55, 1), Run(0, 2) >>,
    << Run(0, 2), Run(55, 1), Run(0, 1) >>,
    << Run(120, 1) >>,
    << Run(195, 1) >>,
    << Run(32, MaxPayload - 1), Run(55, 1) >>,
    << Run(32, MaxPayload), Run(55, 1) >> }

\* The streams: a header packed in either byte order, with the magic, a
\* wrong magic or the swapped magic, whole or cut after four bytes, that
\* declares the bytes that follow, one fewer, or one more than will come.
Declared(pay) == { RunLen(pay) + d : d \in {-1, 0, 1} } \ {-1}

Streams ==
  UNION { { Stream(e, JFail(""), SubSeq(PackHeader(o, m, n), 1, k), pay, o, m) :
              e \in Endians, o \in Endians, m \in {MAGIC, MAGIC + 1, SwappedMagic},
              k \in {4, 8}, n \in Declared(pay) } :
          pay \in Payloads }

Chars(bs) == Merged(<< >>, Runs(bs))

\* Payload objects: the request of call("info", []); strings with NUL, quote,
\* backslash and a two-byte character; nested arrays and objects; strings
\* whose text fills ten megabytes, and two bytes more.
InfoRequest ==
  JObj(<< JStr(Chars(<< 110, 97, 109, 101 >>)), JStr(Chars(<< 105, 110, 102, 111 >>)),
          JStr(Chars(<< 97, 114, 103, 115 >>)), JArr(<< >>) >>)

Values ==
  { InfoRequest,
    JObj(<< >>),
    JInt(Chars(<< 52, 50 >>)),
    JStr(<< Run(0, 1), Run(97, 2), Run(0, 2) >>),
    JStr(<< Run(34, 1), Run(92, 1), Run(233, 2) >>),
    JArr(<< JInt(Chars(<< 48 >>)), JStr(<< >>), JArr(<< JObj(<< >>) >>) >>),
    JObj(<< JStr(Chars(<< 118 >>)), JArr(<< JStr(<< Run(0, 1) >>), JInt(Chars(<< 55 >>)) >>) >>),
    JStr(<< Run(97, MaxPayload - 2) >>),
    JStr(<< Run(97, MaxPayload) >>) }

\* The keys of the request object and of an argument.
KeyName == JStr(Chars(<< 110, 97, 109, 101 >>))
KeyArgs == JStr(Chars(<< 97, 114, 103, 115 >>))
KeyValue == JStr(Chars(<< 118, 97, 108, 117, 101 >>))
KeyIndex == JStr(Chars(<< 105, 110, 100, 101, 120 >>))

\* An Arg instance, lines 41-46: its value, and its index and name or None.
JNone == JFail("None")
Arg(value, index, name) == [t |-> "Arg", s |-> << >>, items |-> << value, index, name >>]

\* Arg.to_dict, lines 48-55: the value, the index and the name if given.
ToDict(a) ==
  JObj(<< KeyValue, a.items[1] >>
       \o (IF a.items[2] # JNone THEN << KeyIndex, a.items[2] >> ELSE << >>)
       \o (IF a.items[3] # JNone THEN << KeyName, a.items[3] >> ELSE << >>))

\* lines 153-155: a dict or list value of an Arg becomes its JSON text.
ArgValue(v) == IF v.t \in {"obj", "arr"} THEN JStr(JsonDumps(v)) ELSE v

\* lines 150-160: the loop over args.  An Arg is rebuilt with its value
\* and turned into a dict; a dict is appended as it is; anything else
\* raises TypeError.
RECURSIVE ReqArgs(_, _)
ReqArgs(as, acc) ==
  IF as = << >> THEN JArr(acc)
  ELSE LET a == as[1]
       IN  IF a.t = "Arg"
             THEN ReqArgs(Tail(as),
                          Append(acc, ToDict(Arg(ArgValue(a.items[1]), a.items[2], a.items[3]))))
           ELSE IF a.t = "obj" THEN ReqArgs(Tail(as), Append(acc, a))
           ELSE JFail("TypeError")

\* line 162: req_obj = {"name": name, "args": req_args}
ReqObj(name, as) ==
  LET req_args == ReqArgs(as, << >>)
  IN  IF req_args.t = "arr" THEN JObj(<< KeyName, name, KeyArgs, req_args >>) ELSE req_args

\* Values of arguments: an integer, a string, an object and an array that
\* holds one.
Scalars == { JInt(Chars(<< 55 >>)), JStr(Chars(<< 34, 120 >>)) }
Structured ==
  { JObj(<< JStr(Chars(<< 107 >>)), JInt(Chars(<< 49 >>)) >>),
    JArr(<< JInt(Chars(<< 49 >>)), JObj(<< >>) >>) }

\* The args lists of the calls: none; one Arg instance or one dict, with a
\* scalar or a structured value; an Arg and a dict; a list with an element
\* that is neither.
ArgInputs ==
  { << >> }
  \cup { << Arg(v, JInt(Chars(<< 48 >>)), JNone) >> : v \in Scalars \cup Structured }
  \cup { << Arg(v, JNone, JStr(Chars(<< 97 >>))) >> : v \in Structured }
  \cup { << JObj(<< KeyValue, w, KeyIndex, JInt(Chars(<< 49 >>)) >>) >> : w \in Scalars \cup Structured }
  \cup { << Arg(JArr(<< >>), JNone, JNone), JObj(<< KeyValue, JObj(<< >>) >>) >>,
          << JObj(<< KeyValue, JInt(Chars(<< 55 >>)) >>), JInt(Chars(<< 53 >>)) >> }

\* One stream from the peer, one payload object to pack, or the args list
\* of one call("info", args).
InitCodec ==
  /\ InitClient("good", {}, {"<"}, "calls")
  /\ NoLog /\ mon = NoMonitor
  /\ codec \in Streams
               \cup { Stream(e, v, << >>, << >>, e, MAGIC) : e \in Endians, v \in Values }
               \cup { [Stream(e, JFail(""), << >>, << >>, e, MAGIC) EXCEPT !.args = ArgList(as)] :
                        e \in Endians, as \in ArgInputs }

\* call(), lines 150-162: the request object of call("info", args) is built,
\* or the loop over args raises.
BuildRequest ==
  /\ codec.args.given /\ codec.p = JFail("")
  /\ codec' = [codec EXCEPT !.p = ReqObj(JStr(Chars(<< 105, 110, 102, 111 >>)), codec.args.list)]
  /\ UNCHANGED << client, conn, world, th, result, g, wire >>

\* A _pack that writes the number of characters of the text as the length.
PackObjectChars(e, v) ==
  LET text == JsonDumps(v)
  IN  [hdr |-> PackHeader(e, MAGIC, RunLen(text)), pay |-> Utf8Encode(text)]

\* _pack, lines 105-117: the header in the byte order stored, then the bytes
\* of the text of the payload object.
PackObject(e, v) ==
  LET bytes == Utf8Encode(JsonDumps(v))
  IN  [hdr |-> PackHeader(e, MAGIC, RunLen(bytes)), pay |-> bytes]

\* The frame of the payload object is packed and becomes the stream.
PackStream ==
  /\ codec.p.t \in {"str", "int", "arr", "obj"} /\ codec.hdr = << >>
  /\ codec' = [codec EXCEPT !.hdr = PackObject(codec.e, codec.p).hdr,
                            !.pay = PackObject(codec.e, codec.p).pay]
  /\ UNCHANGED << client, conn, world, th, result, g, wire >>

\* _recv_exact(sock, 8) on the stream: eight bytes, or the end of the stream.
HeaderArrives == codec.hdr # << >>
HeaderWhole == Len(codec.hdr) = 8

\* The magic check of VulSimLogClient._recv_packet, lines 247-249.
LogHeaderFault(e, hdr) ==
  IF UnpackHeader(e, hdr).magic # MAGIC THEN "Bad magic" ELSE ""

\* What a decoder is after its header read: ended by the end of the stream or
\* by the fault, or about to read the length the header declares.
AfterHeader(d, fault) ==
  IF ~HeaderWhole THEN [d EXCEPT !.pc = "done", !.out = JFail("ConnectionError")]
  ELSE IF fault # "" THEN [d EXCEPT !.pc = "done", !.out = JFail("VulSimProtocolError")]
  ELSE [d EXCEPT !.pc = "payload", !.length = UnpackHeader(codec.e, codec.hdr).length]

\* _recv_exact(sock, length) and what follows it: at the end of the stream
\* the bytes that came are consumed and the read fails; else the payload is
\* read and decoded, with value as the outcome.
AfterPayload(d, value) ==
  IF RunLen(codec.pay) < d.length
    THEN [d EXCEPT !.pc = "done", !.read = RunLen(codec.pay), !.out = JFail("ConnectionError")]
    ELSE [d EXCEPT !.pc = "done", !.read = d.length, !.out = value]

\* lines 142-143: json.loads(payload.decode("utf-8").strip('\x00'))
ControlBody(bytes) ==
  LET text == Utf8Decode(bytes, << >>)
  IN  IF text = NoText THEN JFail("UnicodeDecodeError") ELSE JsonLoads(Strip(text))

\* lines 251-252: json.loads(payload.rstrip(b"\x00").decode("utf-8"))
LogBody(bytes) ==
  LET text == Utf8Decode(RStrip(bytes), << >>)
  IN  IF text = NoText THEN JFail("UnicodeDecodeError") ELSE JsonLoads(text)

\* VulSimControlClient._recv_packet, lines 125-137
ControlHeader ==
  /\ codec.ctl.pc = "idle" /\ HeaderArrives
  /\ codec' = [codec EXCEPT !.ctl = AfterHeader(@, IF HeaderWhole
                                                      THEN HeaderFault(codec.e, codec.hdr)
                                                      ELSE "")]
  /\ UNCHANGED << client, conn, world, th, result, g, wire >>

\* VulSimControlClient._recv_packet, lines 139-145
ControlPayload ==
  /\ codec.ctl.pc = "payload"
  /\ codec' = [codec EXCEPT !.ctl = AfterPayload(@, ControlBody(Take(codec.pay, @.length)))]
  /\ UNCHANGED << client, conn, world, th, result, g, wire >>

\* VulSimLogClient._recv_packet, lines 246-249
LogHeader ==
  /\ codec.log.pc = "idle" /\ HeaderArrives
  /\ codec' = [codec EXCEPT !.log = AfterHeader(@, IF HeaderWhole
                                                      THEN LogHeaderFault(codec.e, codec.hdr)
                                                      ELSE "")]
  /\ UNCHANGED << client, conn, world, th, result, g, wire >>

\* VulSimLogClient._recv_packet, lines 250-252
LogPayload ==
  /\ codec.log.pc = "payload"
  /\ codec' = [codec EXCEPT !.log = AfterPayload(@, LogBody(Take(codec.pay, @.length)))]
  /\ UNCHANGED << client, conn, world, th, result, g, wire >>

NextCodec ==
  \/ BuildRequest
  \/ PackStream
  \/ ControlHeader
  \/ ControlPayload
  \/ LogHeader
  \/ LogPayload

SpecCodec == InitCodec /\ [][NextCodec]_vars

(***************************************************************************)
(* VulSimLogClient, lines 195-263: start(), stop() and the receive loop of  *)
(* the thread start() spawns.  One thread calls start() and stop().         *)
(***************************************************************************)
\* Threads the log client spawns in one run, invocations of start() and
\* stop(), and frames the peer pushes on one connection.
MaxRuns == 2
MaxCtl == 3
MaxFrames == 2

LogThreads == 1..MaxRuns

\* Everything but the log client.
callv == << sock, endian, lock, conn, serverEndian, peer, active, scope, th,
            result, g, owner, interleaved, codec, mon >>

\* A thread that was not created.  A thread has one socket, the one its
\* _connect dials: st, inbox and pushed are its state, the frames the peer
\* pushed that were not read, and how many it pushed.  rsock is the socket a
\* blocking read was started on, exc the exception on its way to the except
\* clause.  The rest is history: the on_log and on_error calls made, the
\* exception on_error got, the on_log calls begun with the stop flag set or
\* after on_error, where the thread was when stop() set the flag, whether
\* the loop saw the flag set, and the connections dialed.
NoRun ==
  [pc |-> "none", st |-> "none", inbox |-> << >>, pushed |-> 0, rsock |-> None,
   exc |-> "", logs |-> 0, errs |-> 0, errExc |-> "", late |-> 0, afterErr |-> FALSE,
   stopAt |-> "", observed |-> FALSE, dials |-> 0]

\* __init__, lines 201-219, as the window calls it with endian "<", and
\* with each callback given or left None.
InitLog ==
  /\ InitClient("faulty", {}, {"<"}, "calls")
  /\ codec = NoCodec
  /\ mon = NoMonitor
  /\ \E l, e \in BOOLEAN :
       logc = [sock |-> None, stop_evt |-> FALSE, th |-> None, endian |-> "<",
               on_log |-> l, on_error |-> e]
  /\ ctl = [pc |-> "idle", ops |-> 0, spawned |-> 0, last |-> "", found |-> FALSE]
  /\ run = [r \in LogThreads |-> NoRun]

\* Thread.is_alive(): from Thread.start() to the end of _run.
Alive(r) == run[r].pc \notin {"none", "done"}
AliveNow == logc.th # None /\ Alive(logc.th)

Returns(op) == [ctl EXCEPT !.pc = "idle", !.last = op]

\* A start() that spawns whether or not a thread is alive.
StartCheckSpawns ==
  /\ ctl.pc = "idle" /\ ctl.ops < MaxCtl
  /\ ctl.spawned < MaxRuns
  /\ ctl' = [ctl EXCEPT !.pc = "L224", !.ops = @ + 1, !.found = FALSE]
  /\ UNCHANGED << logc, run, callv >>

\* start(), lines 222-223: if self._th and self._th.is_alive(): return
StartCheck ==
  /\ ctl.pc = "idle" /\ ctl.ops < MaxCtl
  /\ AliveNow \/ ctl.spawned < MaxRuns
  /\ ctl' = IF AliveNow
              THEN [Returns("start") EXCEPT !.ops = @ + 1, !.found = TRUE]
              ELSE [ctl EXCEPT !.pc = "L224", !.ops = @ + 1, !.found = FALSE]
  /\ UNCHANGED << logc, run, callv >>

\* line 224: self._stop_evt.clear()
ClearEvent ==
  /\ ctl.pc = "L224"
  /\ logc' = [logc EXCEPT !.stop_evt = FALSE]
  /\ ctl' = [ctl EXCEPT !.pc = "L225"]
  /\ UNCHANGED << run, callv >>

\* A thread that ended, once what it did is of no interest any more.
Gone == [NoRun EXCEPT !.pc = "done"]

\* lines 225-226: the thread is created, stored in self._th and started.
\* What the threads that ended before did is forgotten.
Spawn ==
  /\ ctl.pc = "L225"
  /\ LET r == ctl.spawned + 1
     IN  /\ logc' = [logc EXCEPT !.th = r]
         /\ run' = [u \in LogThreads |->
                      IF u = r THEN [NoRun EXCEPT !.pc = "L238"]
                      ELSE IF run[u].pc = "done" THEN Gone
                      ELSE run[u]]
         /\ ctl' = [Returns("start") EXCEPT !.spawned = r]
  /\ UNCHANGED callv

\* stop(), line 229: self._stop_evt.set()
StopSet ==
  /\ ctl.pc = "idle" /\ ctl.ops < MaxCtl
  /\ logc' = [logc EXCEPT !.stop_evt = TRUE]
  /\ ctl' = [ctl EXCEPT !.pc = "L230", !.ops = @ + 1]
  /\ run' = [r \in LogThreads |->
               IF Alive(r) /\ run[r].stopAt = "" THEN [run[r] EXCEPT !.stopAt = run[r].pc]
               ELSE run[r]]
  /\ UNCHANGED callv

\* line 230: if self._sock
StopCheck ==
  /\ ctl.pc = "L230"
  /\ ctl' = IF logc.sock = None THEN Returns("stop") ELSE [ctl EXCEPT !.pc = "L232"]
  /\ UNCHANGED << logc, run, callv >>

\* lines 231-234: self._sock.close(), whatever it raises is dropped (the
\* socket of a thread that is forgotten has no state to change)
StopClose ==
  /\ ctl.pc = "L232"
  /\ run' = IF logc.sock = None \/ run[logc.sock].st = "none" THEN run
            ELSE [run EXCEPT ![logc.sock].st = "closed", ![logc.sock].inbox = << >>]
  /\ ctl' = [ctl EXCEPT !.pc = "L235"]
  /\ UNCHANGED << logc, callv >>

\* line 235: self._sock = None
StopClear ==
  /\ ctl.pc = "L235"
  /\ logc' = [logc EXCEPT !.sock = None]
  /\ ctl' = Returns("stop")
  /\ UNCHANGED << run, callv >>

\* An exception after which the loop connects again.
FailReconnects(r, x) == [run EXCEPT ![r].pc = "L238", ![r].exc = x, ![r].rsock = None]

\* An exception x is raised in the try block of _run in thread r.
Fail(r, x) == [run EXCEPT ![r].pc = "L262", ![r].exc = x, ![r].rsock = None]

\* _connect, lines 238-241: the socket is made and dialed; what s.connect
\* raises leaves _connect.
LogDial ==
  \E r \in LogThreads :
    /\ run[r].pc = "L238"
    /\ \E o \in {"ok", "timeout", "ConnectionRefusedError"} :
         run' = IF o = "ok"
                  THEN [run EXCEPT ![r].pc = "L242", ![r].st = "open", ![r].dials = @ + 1]
                  ELSE Fail(r, o)
    /\ UNCHANGED << logc, ctl, callv >>

\* line 242: self._sock = s
LogStore ==
  \E r \in LogThreads :
    /\ run[r].pc = "L242"
    /\ logc' = [logc EXCEPT !.sock = r]
    /\ run' = [run EXCEPT ![r].pc = "L257"]
    /\ UNCHANGED << ctl, callv >>

\* line 257: while not self._stop_evt.is_set()
LoopCheck ==
  \E r \in LogThreads :
    /\ run[r].pc = "L257"
    /\ run' = IF logc.stop_evt
                THEN [run EXCEPT ![r].pc = "done", ![r].observed = TRUE]
                ELSE [run EXCEPT ![r].pc = "L245"]
    /\ UNCHANGED << logc, ctl, callv >>

\* lines 245-246: assert self._sock is not None; _recv_exact is entered
LogRecvBegin ==
  \E r \in LogThreads :
    /\ run[r].pc = "L245"
    /\ run' = IF logc.sock = None THEN Fail(r, "AssertionError")
              ELSE [run EXCEPT ![r].pc = "hdr", ![r].rsock = logc.sock]
    /\ UNCHANGED << logc, ctl, callv >>

\* How a blocking read on the socket of thread s may end.  Closed by
\* stop() under the reader: EBADF, or the timeout.  Bytes there: they are
\* read.  Nothing there: the read times out, or the peer closes.
LogRecvOutcomes(s) ==
  IF run[s].st = "closed" THEN {"OSError", "timeout"}
  ELSE IF run[s].inbox # << >> THEN {"data"}
  ELSE {"timeout", "ConnectionError"}

\* lines 246-249: the eight bytes arrive, or the read fails; the magic is
\* checked in the byte order of the client.
LogRecvHeader ==
  \E r \in LogThreads :
    /\ run[r].pc = "hdr"
    /\ \E o \in LogRecvOutcomes(run[r].rsock) :
         run' = IF o # "data" THEN Fail(r, o)
                ELSE IF LogHeaderFault(logc.endian, Head(run[run[r].rsock].inbox).hdr) # ""
                  THEN Fail(r, "VulSimProtocolError")
                ELSE [run EXCEPT ![r].pc = "L250", ![r].rsock = None]
    /\ UNCHANGED << logc, ctl, callv >>

\* line 250: _recv_exact(self._sock, length) is entered
LogRecvPayloadBegin ==
  \E r \in LogThreads :
    /\ run[r].pc = "L250"
    /\ run' = IF logc.sock = None THEN Fail(r, "AttributeError")
              ELSE [run EXCEPT ![r].pc = "pay", ![r].rsock = logc.sock]
    /\ UNCHANGED << logc, ctl, callv >>

\* How reading and decoding the payload of a frame ends: "" when it is
\* whole and json.loads takes it.
LogPayloadEnds(f) ==
  IF f.body.kind = "short" THEN {"timeout", "ConnectionError"}
  ELSE IF f.body.kind = "badjson" THEN {"ValueError"}
  ELSE {""}

\* lines 250-252: the payload arrives and is decoded, or the read fails.
LogRecvPayload ==
  \E r \in LogThreads :
    /\ run[r].pc = "pay"
    /\ LET s == run[r].rsock
       IN  \E o \in LogRecvOutcomes(s) :
             IF o # "data" THEN run' = Fail(r, o)
             ELSE \E x \in LogPayloadEnds(Head(run[s].inbox)) :
                    run' = IF x # "" THEN [Fail(r, x) EXCEPT ![s].inbox = Tail(@)]
                           ELSE [run EXCEPT ![r].pc = "L259", ![r].rsock = None,
                                            ![s].inbox = Tail(@)]
    /\ UNCHANGED << logc, ctl, callv >>

\* lines 259-260: if self.on_log: self.on_log(msg) is entered
LogDeliver ==
  \E r \in LogThreads :
    /\ run[r].pc = "L259"
    /\ run' = IF logc.on_log
                THEN [run EXCEPT ![r].pc = "on_log", ![r].logs = @ + 1,
                                 ![r].late = @ + (IF logc.stop_evt THEN 1 ELSE 0),
                                 ![r].afterErr = run[r].errs > 0]
                ELSE [run EXCEPT ![r].pc = "L257"]
    /\ UNCHANGED << logc, ctl, callv >>

\* on_log returns, or it raises.
OnLogEnds ==
  \E r \in LogThreads :
    /\ run[r].pc = "on_log"
    /\ \E o \in {"", "CallbackError"} :
         run' = IF o = "" THEN [run EXCEPT ![r].pc = "L257"] ELSE Fail(r, o)
    /\ UNCHANGED << logc, ctl, callv >>

\* An except clause that calls on_error whatever the stop flag says.
ReportsAlways == logc.on_error

\* line 262: if not self._stop_evt.is_set() and self.on_error
Reports == ~logc.stop_evt /\ logc.on_error

\* lines 261-263: the except clause: on_error(e) is entered, or _run ends.
ErrCheck ==
  \E r \in LogThreads :
    /\ run[r].pc = "L262"
    /\ run' = IF Reports
                THEN [run EXCEPT ![r].pc = "on_error", ![r].errs = @ + 1,
                                 ![r].errExc = run[r].exc]
                ELSE [run EXCEPT ![r].pc = "done"]
    /\ UNCHANGED << logc, ctl, callv >>

\* on_error returns or raises: _run ends and the thread with it.
OnErrorEnds ==
  \E r \in LogThreads :
    /\ run[r].pc = "on_error"
    /\ run' = [run EXCEPT ![r].pc = "done"]
    /\ UNCHANGED << logc, ctl, callv >>

\* The frames the log server pushes: a message in its byte order, one with
\* another magic, one whose payload is no JSON, one that is cut short.
LogFrames ==
  { Frame(serverEndian, MAGIC, 10, Doc("dict", 0, NoReq)),
    Frame(serverEndian, MAGIC + 1, 10, Doc("dict", 0, NoReq)),
    Frame(serverEndian, MAGIC, 2, Doc("badjson", 0, NoReq)),
    Frame(serverEndian, MAGIC, 10, Doc("short", 0, NoReq)) }

\* A frame arrives on a connection whose reader waits for a header.
LogServerPush ==
  \E r \in LogThreads :
    /\ run[r].st = "open" /\ run[r].inbox = << >> /\ run[r].pushed < MaxFrames
    /\ run[r].pc = "hdr" /\ run[r].rsock = r
    /\ \E f \in LogFrames :
         run' = [run EXCEPT ![r].inbox = << f >>, ![r].pushed = @ + 1]
    /\ UNCHANGED << logc, ctl, callv >>

\* The steps of the threads the client spawned.
LoopStep ==
  \/ LogDial
  \/ LogStore
  \/ LoopCheck
  \/ LogRecvBegin
  \/ LogRecvHeader
  \/ LogRecvPayloadBegin
  \/ LogRecvPayload
  \/ LogDeliver
  \/ OnLogEnds
  \/ ErrCheck
  \/ OnErrorEnds

NextLog ==
  \/ StartCheck
  \/ ClearEvent
  \/ Spawn
  \/ StopSet
  \/ StopCheck
  \/ StopClose
  \/ StopClear
  \/ LoopStep
  \/ LogServerPush

SpecLog == InitLog /\ [][NextLog]_vars
\* A spawned thread runs; a blocking call ends, by the timeout at the
\* latest, and a callback ends.
SpecLogFair == SpecLog /\ WF_vars(LoopStep)

(***************************************************************************)
(* ConnectionMonitor.run, ui/main_window.py lines 41-83, on the client.     *)
(***************************************************************************)
\* The monitor thread alone uses the client; the peer and the network may
\* fail in every way.
InitMonitor ==
  /\ InitClient("faulty", {"monitor"}, {"<"}, "calls")
  /\ codec = NoCodec
  /\ NoLog
  /\ mon = Monitor(TRUE)

\* The call of the round has returned or raised and is not judged yet.
Pending == th["monitor"].pc = "done" /\ mon.rounds < th["monitor"].calls

\* Whether resp.get("results") of an answer with code 0 is a mapping: it is
\* for a peer that works, a faulty one may leave it out.
HasResults == IF peer = "faulty" THEN BOOLEAN ELSE {TRUE}

\* lines 47-83: what the round makes of the outcome of call("info", []).
\* A mapping resets fail_count and emits status_changed(True, ...); with
\* code 0 the project name is read from its results, which raises when
\* there are none.  What raises inside the try makes the round a failure:
\* fail_count is incremented and status_changed(False, ...) is emitted.
MonitorJudge ==
  /\ mon.on /\ Pending
  /\ LET r == result["monitor"]
         isDict == ~r.raised /\ r.val.kind = "dict"
     IN  \E hasResults \in HasResults :
           LET success == isDict /\ (r.val.code = 0 => hasResults)
               count == IF isDict THEN 0 ELSE mon.fail_count
           IN  mon' = [mon EXCEPT !.rounds = th["monitor"].calls,
                                  !.up = isDict,
                                  !.down = ~success,
                                  !.fail_count = IF success THEN count ELSE count + 1]
  /\ UNCHANGED << client, conn, serverEndian, peer, active, scope, codec, logv,
                  th, result, g, wire >>

\* line 46: the round calls once the round before is through.
MonitorCall == ~Pending /\ CallStart

NextMonitor ==
  \/ MonitorCall
  \/ CheckSock
  \/ ConnectCheck
  \/ Dial
  \/ Pack
  \/ AcquireLock
  \/ CheckLost
  \/ SendAll
  \/ RecvCheck
  \/ RecvHeaderBegin
  \/ RecvHeader
  \/ RecvPayloadBegin
  \/ RecvPayload
  \/ CloseCheck
  \/ CloseSock
  \/ ClearSock
  \/ FlipEndian
  \/ ServerReply
  \/ MonitorJudge

SpecMonitor == InitMonitor /\ [][NextMonitor]_vars

(***************************************************************************)
(* The claims.                                                             *)
(***************************************************************************)
\* How an attempt of a call may end other than by returning a frame.
TransportFaults == {"ConnectionError", "timeout", "Bad magic", "Payload too large"}

Returning(t) == th[t].pc = "done"
\* The fault that ended the attempt in which the call of t returned.
LastFault(t) == g[t].fault[IF th[t].attempt = 0 THEN 1 ELSE 2]
MyRequest(t) == << t, th[t].calls, th[t].attempt >>

\* C1: whatever goes wrong on the transport (no connection and the dial
\* fails, a write fails, a read times out or the peer closes, the payload is
\* no JSON), call() returns, it raises nothing, and what it returns when its
\* last attempt ended in such a fault is a mapping whose code is -1.
C1_NonThrowing ==
  \A t \in active :
    Returning(t) =>
      /\ ~result[t].raised
      /\ result[t].val.kind = "dict"
      /\ LastFault(t) # "" =>
           /\ result[t].val.code = -1
           /\ result[t].val \in {CannotConnect, InternalError} \cup
                                { CommError(x) : x \in TransportExc }

\* A call whose first attempt timed out and whose retry got a payload that is
\* no JSON has returned the internal error.
C1_Witness ==
  /\ Returning("main")
  /\ g["main"].fault = << "timeout", "ValueError" >>
  /\ result["main"] = Returned(InternalError)

\* C2: with both threads calling, the socket reads and writes come in
\* pairs that do not interleave: from a call's sendall to the end of its
\* read no other call reads or writes a socket, and no two threads are
\* between sendall and the end of the read at once.
InPair(t) == th[t].pc \in {"L174", "L120", "L125", "hdr", "L140", "pay"}

C2_NoInterleaving ==
  /\ ~interleaved
  /\ \A t, u \in Threads : InPair(t) /\ InPair(u) => t = u
  /\ \A t \in Threads : InPair(t) => lock = t

\* Both threads have a call that wrote its request and read its answer.
C2_Witness ==
  \A t \in Threads : Returning(t) /\ g[t].writes >= 1 /\ g[t].got # NoDoc

\* C3: a call flips the stored byte order exactly once when its first
\* attempt ends in a transport or framing fault and never otherwise: after
\* such a call the byte order is the flip of what it was before, also when
\* the retry failed too.
C3_FlipOnce ==
  \A t \in active :
    /\ g[t].flips <= 1
    /\ Returning(t) =>
         /\ g[t].flips = 1 <=> g[t].fault[1] \in TransportFaults
         /\ g[t].fault[1] \in TransportFaults => endian = Flip(g[t].e0)

\* Both attempts of a call failed on the transport; it flipped once.
C3_Witness ==
  /\ Returning("main")
  /\ g["main"].fault = << "Bad magic", "timeout" >>
  /\ g["main"].flips = 1
  /\ endian = Flip(g["main"].e0)

\* C4: one thread, a peer that answers every request in its one byte order.
\* A client that starts in the other byte order gets a bad magic on its
\* first call, flips, retries and returns the peer's answer to the retried
\* request, and holds the peer's byte order from then on; a call that starts
\* in the peer's byte order (every later call) returns the answer to its
\* first attempt and flips nothing.
C4_SelfCorrects ==
  LET t == "main"
      answer == Doc("dict", result[t].val.code, MyRequest(t))
  IN  /\ th[t].calls >= 2 => g[t].e0 = serverEndian
      /\ Returning(t) =>
           /\ endian = serverEndian
           /\ result[t] = Returned(answer)
           /\ g[t].got = answer
           /\ answer.code \in {0, 7}
           /\ IF g[t].e0 # serverEndian
                THEN /\ g[t].fault = << "Bad magic", "" >>
                     /\ th[t].attempt = 1
                     /\ g[t].flips = 1
                ELSE /\ g[t].fault = << "", "" >>
                     /\ th[t].attempt = 0
                     /\ g[t].flips = 0

\* The first call of a client that started in the wrong byte order returned
\* the peer's answer, code 0, after one flip.
C4_Witness ==
  /\ Returning("main")
  /\ th["main"].calls = 1
  /\ g["main"].e0 # serverEndian
  /\ g["main"].flips = 1
  /\ result["main"].val.code = 0
  /\ endian = serverEndian

\* The exception class of a fault.
ExcOf(f) == IF f \in {"Bad magic", "Payload too large"} THEN "VulSimProtocolError" ELSE f

\* C5: a first attempt that ends in a connection error, a timeout, a bad
\* magic or an oversized length is followed by one retry, whose request is
\* packed in the flipped byte order; a retry that ends in such a fault too
\* ends the call with the communication error; there is no third attempt.
C5_OneRetry ==
  \A t \in active :
    /\ th[t].attempt \in {0, 1}
    /\ th[t].attempt = 1 => g[t].fault[1] \in TransportFaults /\ g[t].flips = 1
    /\ th[t].attempt = 1 /\ th[t].data.req = MyRequest(t) =>
         th[t].data.hdr = PackHeader(Flip(g[t].e0), MAGIC, Len(ReqBytes))
    /\ g[t].writes <= 2 /\ g[t].dials <= 2
    /\ Returning(t) =>
         /\ g[t].fault[1] \in TransportFaults => th[t].attempt = 1
         /\ g[t].fault[2] \in TransportFaults =>
              result[t] = Returned(CommError(ExcOf(g[t].fault[2])))

\* An oversized length, then a timeout on the retry: the communication error.
C5_Witness ==
  /\ Returning("main")
  /\ g["main"].fault = << "Payload too large", "timeout" >>
  /\ result["main"] = Returned(CommError("timeout"))

\* C6: a call on a disconnected client whose connect() fails returns the
\* connect error at once: it made no attempt after the first, wrote nothing,
\* closed nothing, flipped nothing, and the client is still disconnected.
C6_ConnectFails ==
  \A t \in active :
    Returning(t) /\ g[t].fault[1] = "noconnect" =>
      /\ result[t] = Returned(CannotConnect)
      /\ th[t].attempt = 0
      /\ g[t].writes = 0 /\ g[t].dials = 0 /\ g[t].closes = 0 /\ g[t].flips = 0
      /\ endian = g[t].e0
      /\ sock = None
      /\ \A s \in Socks : conn[s].st = "none"

C6_Witness ==
  /\ Returning("main")
  /\ g["main"].fault[1] = "noconnect"
  /\ result["main"] = Returned(CannotConnect)
  /\ th["main"].calls = 2

\* C7: a call that decoded a well-formed frame returns the decoded mapping
\* as it is, code 0 or not, and the attempt that decoded it flipped nothing,
\* closed nothing and wrote once; the client keeps the connection.
C7_PassThrough ==
  \A t \in active :
    Returning(t) /\ g[t].got # NoDoc =>
      /\ result[t] = Returned(g[t].got)
      /\ g[t].got.code \in {0, 7}
      /\ LastFault(t) = ""
      /\ g[t].flips = th[t].attempt /\ g[t].closes = th[t].attempt
      /\ g[t].writes <= th[t].attempt + 1
      /\ endian = (IF th[t].attempt = 0 THEN g[t].e0 ELSE Flip(g[t].e0))
      /\ sock # None /\ conn[sock].st = "open"

\* A backend error is returned by the first attempt, as it came.
C7_Witness ==
  /\ Returning("main")
  /\ th["main"].attempt = 0
  /\ g["main"].got.code = 7
  /\ result["main"].val = Doc("dict", 7, << "main", th["main"].calls, 0 >>)
  /\ g["main"].flips = 0 /\ g["main"].closes = 0

\* C8: two threads call on one client, the peer answers every request in
\* its byte order: every call returns the peer's answer to a request it
\* wrote, none raises or returns a client error, and once both have
\* returned the stored byte order is the peer's.
C8_ConcurrentSafe ==
  /\ \A t \in Threads :
       Returning(t) =>
         /\ ~result[t].raised
         /\ result[t].val.code # -1
         /\ result[t].val.req[1] = t /\ result[t].val.req[2] = th[t].calls
  /\ (\A t \in Threads : Returning(t)) => endian = serverEndian

\* C9: the mapping a call decoded and returns answers a request that this
\* call wrote.
C9_OwnReply ==
  \A t \in active :
    Returning(t) /\ g[t].got # NoDoc =>
      /\ g[t].got.req[1] = t
      /\ g[t].got.req[2] = th[t].calls

\* The socket operations of an attempt that can fail.
SocketFaults == {"ConnectionError", "timeout", "OSError"}

\* C10: a call in which a socket read or write failed leaves the client
\* disconnected when it returns a client error: the handle is None, so the
\* next call dials anew.
C10_DisconnectedAfterFailure ==
  \A t \in active :
    Returning(t) /\ LastFault(t) \in SocketFaults /\ g[t].writes >= 1 =>
      sock = None

\* What a finished call() handed back (connect() hands back a bool, close()
\* nothing).
CallReturned(t) == Returning(t) /\ ~result[t].raised /\ g[t].op = "call"

\* C11: no invocation of call() raises, whatever the name and the args list
\* are, an element that is neither an Arg nor a dict included: every
\* exception ends as a mapping with code -1.
C11_NeverRaises ==
  \A t \in active :
    Returning(t) =>
      /\ ~result[t].raised
      /\ LastFault(t) # "" => result[t].val.code = -1

\* C12: every value call() returns is a mapping that holds an integer code,
\* whatever JSON document the peer sent: an object without a code key, a
\* code that is no integer, a document that is no object.
C12_IntegerCode ==
  \A t \in active : CallReturned(t) => result[t].val.kind = "dict"

\* A step of thread t.
StepOf(t) == th'[t] # th[t]
\* connect(), close() has ended in thread t, by return or by an exception.
ConnectEnded(t) == Returning(t) /\ g[t].op = "connect"
CloseEnded(t) == Returning(t) /\ g[t].op = "close"

\* C13: connect() on a client that holds a socket returns True, dials
\* nothing and leaves the handle and the connection as they are, however
\* often it is called.
C13_ConnectIdempotent ==
  /\ [](\A t \in active :
          ConnectEnded(t) /\ g[t].s0 # None =>
            /\ result[t] = Returned(BoolValue(TRUE))
            /\ g[t].dials = 0
            /\ sock = g[t].s0)
  /\ [][\A t \in active :
          th[t].op = "connect" /\ th[t].pc = "L83" /\ sock # None /\ StepOf(t) =>
            /\ sock' = sock /\ conn' = conn /\ endian' = endian
            /\ th'[t].pc = "done"
            /\ result'[t] = Returned(BoolValue(TRUE))]_vars

\* The third of three invocations is a connect() that found a socket and
\* returned True without dialing.
C13_Witness ==
  /\ ConnectEnded("main")
  /\ th["main"].calls = 3
  /\ g["main"].s0 # None /\ g["main"].dials = 0
  /\ result["main"] = Returned(BoolValue(TRUE))
  /\ sock = g["main"].s0 /\ conn[sock].st = "open"

\* C14: a connect() whose dial fails (timeout, refused, another OSError)
\* returns False with the handle None, and raises nothing; a connect() that
\* does not return True is one whose dial failed.
C14_ConnectFailure ==
  \A t \in active :
    ConnectEnded(t) =>
      /\ ~result[t].raised
      /\ result[t].val \in {BoolValue(TRUE), BoolValue(FALSE)}
      /\ g[t].fault[1] = "noconnect" <=> result[t].val = BoolValue(FALSE)
      /\ g[t].fault[1] = "noconnect" =>
           /\ sock = None
           /\ g[t].dials = 0
           /\ \A s \in Socks : conn[s].st = "none"

\* A connect() on a disconnected client returned False after a failed dial.
C14_Witness ==
  /\ ConnectEnded("main")
  /\ g["main"].s0 = None
  /\ g["main"].fault[1] = "noconnect"
  /\ result["main"] = Returned(BoolValue(FALSE))
  /\ sock = None

C16_EndianFrame ==
  /\ [](\A t \in active :
          Returning(t) /\ (g[t].op \in {"connect", "close"} \/ th[t].attempt = 0) =>
            endian = g[t].e0)
  /\ [][endian' # endian =>
          /\ endian' = Flip(endian)
          /\ \E t \in active :
               /\ th[t].op = "call" /\ th[t].pc = "L187" /\ StepOf(t)
               /\ th[t].attempt = 0 /\ th[t].exc \in TransportExc
               /\ g[t].fault[1] \in TransportFaults]_vars

\* After two other invocations, a call returned a backend error on its first
\* attempt; the byte order is the one it found.
C16_Witness ==
  /\ CallReturned("main")
  /\ th["main"].calls = 3 /\ th["main"].attempt = 0
  /\ g["main"].got.code = 7
  /\ endian = g["main"].e0

\* The header of the stream as the decoders read it.
Seen == UnpackHeader(codec.e, codec.hdr)
ProtocolError == JFail("VulSimProtocolError")
Done(d) == d.pc = "done" /\ HeaderWhole

\* C17: the control client rejects a header that declares more than
\* 10*1024*1024 bytes with the protocol error, having read no payload byte;
\* it accepts one that declares that many or fewer and reads as many payload
\* bytes as declared (all that come, when the stream ends before).
C17_LengthLimit ==
  LET d == codec.ctl
  IN  /\ d.pc = "payload" => d.length = Seen.length /\ d.length <= MaxPayload
      /\ Done(d) /\ Seen.magic = MAGIC =>
           IF Seen.length > MaxPayload
             THEN d.out = ProtocolError /\ d.read = 0
             ELSE /\ d.out # ProtocolError
                  /\ d.read = (IF RunLen(codec.pay) >= Seen.length THEN Seen.length
                               ELSE RunLen(codec.pay))
                  /\ RunLen(codec.pay) < Seen.length <=> d.out = JFail("ConnectionError")

\* A frame of exactly ten megabytes has been read whole and decoded.
C17_Witness ==
  /\ Done(codec.ctl)
  /\ Seen.magic = MAGIC /\ Seen.length = MaxPayload
  /\ codec.ctl.read = MaxPayload
  /\ codec.ctl.out = JInt(<< Run(55, 1) >>)

\* C18: on one byte stream and with one byte order, _recv_packet of the
\* control client and of the log client end alike: both return the same JSON
\* value, or both fail with the same class of exception.
C18_SameDecoding ==
  codec.ctl.pc = "done" /\ codec.log.pc = "done" => codec.ctl.out = codec.log.out

\* C19: a header whose magic, read in the decoder's byte order, is not
\* 0x37549260 ends both decoders with the protocol error and no payload byte
\* read; so does every header packed with the magic in the other byte
\* order, whose magic is read as 0x60925437.
C19_BadMagic ==
  /\ SwappedMagic = 1620202551 /\ SwappedMagic # MAGIC
  /\ \A d \in {codec.ctl, codec.log} :
       /\ d.pc = "payload" => Seen.magic = MAGIC
       /\ Done(d) /\ Seen.magic # MAGIC => d.out = ProtocolError /\ d.read = 0
       /\ Done(d) /\ codec.m = MAGIC /\ codec.o # codec.e =>
            d.out = ProtocolError /\ d.read = 0

\* Both decoders have rejected a header packed in the other byte order.
C19_Witness ==
  /\ Done(codec.ctl) /\ Done(codec.log)
  /\ codec.m = MAGIC /\ codec.o # codec.e
  /\ codec.ctl.out = ProtocolError /\ codec.log.out = ProtocolError

\* The stream is the frame _pack made of a payload object.
Packed == codec.p.t \in {"str", "int", "arr", "obj"} /\ codec.hdr # << >>

RECURSIVE ByteCount(_)
ByteCount(cs) ==
  IF cs = << >> THEN 0
  ELSE (IF cs[1].b < 128 THEN 1 ELSE 2) * cs[1].n + ByteCount(Tail(cs))

\* C21: the frame _pack makes of a payload object in either byte order is
\* eight header bytes, the magic and the length, followed by the payload;
\* the length field is the number of UTF-8 bytes of the compact JSON text,
\* not the number of its characters, and the frame is 8 plus that many
\* bytes long; the text has no white space between its tokens.
C21_HeaderExact ==
  Packed =>
    LET text == JsonDumps(codec.p)
    IN  /\ Len(codec.hdr) = 8
        /\ UnpackHeader(codec.e, codec.hdr) = [magic |-> MAGIC, length |-> ByteCount(text)]
        /\ codec.pay = Utf8Encode(text)
        /\ RunLen(codec.pay) = ByteCount(text)
        /\ Len(codec.hdr) + RunLen(codec.pay) = 8 + ByteCount(text)
        /\ \A i \in 1..Len(codec.pay) : codec.pay[i].b # 32

\* The frame of a string with two two-byte characters: eight characters of
\* text, ten bytes of payload, and the header says ten.
C21_Witness ==
  /\ Packed
  /\ codec.p = JStr(<< Run(34, 1), Run(92, 1), Run(233, 2) >>)
  /\ RunLen(JsonDumps(codec.p)) = 8
  /\ Seen.length = 10
  /\ RunLen(codec.pay) = 10

\* The request of a call() is on the wire; its args array.
RequestSent == codec.args.given /\ Packed
SentArgs == codec.p.items[4].items
\* The value of an argument dict: what follows its "value" key.
HasValue(d) == \E i \in 1..Len(d.items) : i % 2 = 1 /\ d.items[i] = KeyValue
ValueOf(d) == d.items[(CHOOSE i \in 1..Len(d.items) : i % 2 = 1 /\ d.items[i] = KeyValue) + 1]

\* C22: in every request call() writes to the wire, the value of every
\* element of args is a scalar: a dict or list value is sent as a JSON
\* string, never as nested JSON, for Arg elements and for dict elements
\* alike.
C22_ScalarArgs ==
  RequestSent =>
    \A i \in 1..Len(SentArgs) :
      HasValue(SentArgs[i]) => ValueOf(SentArgs[i]).t \in {"str", "int"}

\* A step in which start() is called, and one in which a thread is spawned.
StartCalled == ctl.pc = "idle" /\ ctl'.ops = ctl.ops + 1 /\ ctl'.pc # "L230"
Spawned(r) == run[r].pc = "none" /\ run'[r].pc # "none"

\* C23: start() called while the thread of the client is alive does nothing
\* and returns; called while none is alive it goes on to spawn one, and a
\* thread is spawned only then; whatever start() and stop() calls the one
\* controlling thread makes, at most one thread of the client is alive.
C23_StartIdempotent ==
  /\ [](Cardinality({ r \in LogThreads : Alive(r) }) <= 1)
  /\ [](ctl.pc = "idle" /\ ctl.last = "start" /\ ~ctl.found =>
          logc.th = ctl.spawned /\ run[logc.th].pc # "none")
  /\ [][StartCalled =>
          IF AliveNow
            THEN ctl'.pc = "idle" /\ ctl'.found /\ logc' = logc /\ run' = run
            ELSE ctl'.pc = "L224" /\ logc' = logc /\ run' = run]_vars
  /\ [][\A r \in LogThreads :
          Spawned(r) => /\ \A u \in LogThreads : ~Alive(u)
                        /\ Alive(r)' /\ logc'.th = r /\ ctl'.pc = "idle"]_vars

\* After start(), stop() and a start() that found the first thread ended, a
\* second thread is alive, the only one; a further start() would do nothing.
C23_Witness ==
  /\ ctl.pc = "idle" /\ ctl.ops = 3 /\ ctl.last = "start" /\ ~ctl.found
  /\ ctl.spawned = 2 /\ logc.th = 2
  /\ Alive(2) /\ run[1].pc = "done"

\* Where the loop is when it connects, is blocked in a read, or runs on_log.
StopPoints == {"L238", "hdr", "pay", "on_log"}
StoppedThere(r) == run[r].stopAt \in StopPoints

\* C24: a loop that was connecting, blocked in a read or running on_log
\* when stop() set the flag ends (the pending read fails or times out, the
\* callback returns); on_error is not called in that run; a loop that has
\* seen the flag set has ended, so no on_log begins after that, and at most
\* one on_log begins after the flag was set.
C24_StopEnds ==
  /\ \A r \in LogThreads : StoppedThere(r) ~> run[r].pc = "done"
  /\ [](\A r \in LogThreads :
          /\ StoppedThere(r) => run[r].errs = 0 /\ run[r].pc # "on_error"
          /\ run[r].observed => run[r].pc = "done"
          /\ run[r].stopAt # "" => run[r].late <= 1)
  /\ [][\A r \in LogThreads :
          run[r].pc # "on_log" /\ run'[r].pc = "on_log" => ~run[r].observed]_vars

\* stop() found the loop blocked in the read of a header and closed the
\* socket under it: the read failed, the loop ended, on_error was not called.
C24_Witness ==
  /\ run[1].stopAt = "hdr" /\ run[1].pc = "done"
  /\ run[1].exc = "OSError" /\ run[1].errs = 0
  /\ logc.on_error /\ logc.stop_evt
  /\ ctl.pc = "idle" /\ ctl.last = "stop"

\* A thread that was spawned, whose history is kept, and during which stop()
\* did not set the flag.
NotStopped(r) == run[r].pc # "none" /\ run[r] # Gone /\ run[r].stopAt = ""
\* The exceptions of the receive loop: the connect fails, the peer closes,
\* a read times out, the magic is wrong, the payload is no JSON, on_log
\* raises.
LoopFaults ==
  {"timeout", "ConnectionRefusedError", "ConnectionError", "VulSimProtocolError",
   "ValueError", "CallbackError"}

\* C25: in a run that was not stopped, an exception in the loop is given to
\* on_error, once, and the run ends there: after the exception the thread
\* is in the except clause, in on_error, or ended; it dials once, on_log is
\* not called after on_error, and the byte order stays; such a run ends in
\* no other way.  Without an on_error the run just ends.
C25_TerminalFailure ==
  \A r \in LogThreads :
    NotStopped(r) =>
      /\ run[r].exc # "" => /\ run[r].pc \in {"L262", "on_error", "done"}
                            /\ run[r].exc \in LoopFaults
      /\ run[r].pc \in {"on_error", "done"} =>
           /\ run[r].exc # ""
           /\ run[r].errs = (IF logc.on_error THEN 1 ELSE 0)
           /\ logc.on_error => run[r].errExc = run[r].exc
      /\ run[r].pc \notin {"on_error", "done"} => run[r].errs = 0
      /\ run[r].dials <= 1
      /\ ~run[r].afterErr
      /\ logc.endian = "<"

\* on_log raised on the first message; on_error got that exception, once,
\* and the thread ended.
C25_Witness ==
  /\ NotStopped(1) /\ run[1].pc = "done"
  /\ run[1].logs = 1
  /\ run[1].exc = "CallbackError" /\ run[1].errExc = "CallbackError"
  /\ run[1].errs = 1

\* C30: whenever start() has returned, also after a stop() and also when
\* the thread spawned before had not ended yet, the stop flag is clear and a
\* receive loop is active: the thread of the client is alive, or it ended
\* by an error of its own that happened with the flag clear.
C30_Restartable ==
  ctl.pc = "idle" /\ ctl.last = "start" =>
    /\ ~logc.stop_evt
    /\ logc.th # None
    /\ Alive(logc.th) \/ (run[logc.th].exc # "" /\ run[logc.th].stopAt = "")

\* The round of the monitor is through: what it judged is the last call.
Judged == mon.on /\ mon.rounds >= 1 /\ ~Pending /\ th["monitor"].pc = "done"
\* The call got through to the server: it dialed a connection or wrote on
\* the one the client held.
Reached == g["monitor"].dials >= 1 \/ g["monitor"].writes >= 1

\* C26: a round of the monitor emits status_changed(True, ...) and resets
\* fail_count only when its call reached the server; a round whose call
\* could not connect takes the failure branch: fail_count is incremented
\* and status_changed(False, ...) is emitted.
C26_LinkUp ==
  Judged =>
    /\ mon.up => Reached
    /\ ~Reached => mon.down /\ mon.fail_count >= 1

\* A step that changes the socket handle or the stored byte order.
FieldsChange == sock' # sock \/ endian' # endian

\* C27: while a thread holds the lock of the client (it is in the send and
\* receive section of call()), no other thread changes the socket handle or
\* the stored byte order, and every change call() makes to one of the two
\* is made by the thread that holds the lock.
C27_GuardedFields ==
  [][FieldsChange => \E t \in Threads : lock = t /\ StepOf(t)]_vars

\* The step in which sendall of thread t puts its frame on the wire.
Writes(t) == th[t].pc = "L174" /\ th'[t].pc = "L120"
\* A connection nothing was written to or read from.
Fresh(s) == conn[s] = [FreshConn EXCEPT !.st = "open"]

\* C28: a call writes at most two frames and dials at most two connections,
\* and one frame when its first attempt returns the answer; the frame of
\* the retry is the whole request packed anew in the flipped byte order, and
\* it is written to a connection dialed after the first attempt, on which
\* nothing was written before.
C28_AtMostTwice ==
  /\ [](\A t \in active :
          /\ g[t].writes <= 2 /\ g[t].dials <= 2
          /\ g[t].writes <= th[t].attempt + 1
          /\ Returning(t) /\ th[t].attempt = 0 /\ g[t].got # NoDoc => g[t].writes = 1)
  /\ [][\A t \in active :
          Writes(t) /\ th[t].attempt = 1 =>
            /\ th[t].data = PackRequest(Flip(g[t].e0), << t, th[t].calls, 1 >>)
            /\ endian = Flip(g[t].e0)
            /\ g[t].dials >= 1 /\ g[t].closes = 1
            /\ Fresh(sock)]_vars

\* The read of the first attempt timed out after the request was written;
\* the retry wrote it again, and the answer to the second frame came back.
C28_Witness ==
  /\ Returning("main")
  /\ g["main"].fault = << "timeout", "" >>
  /\ g["main"].writes = 2 /\ g["main"].dials = 2
  /\ g["main"].got = Doc("dict", 0, << "main", 1, 1 >>)

\* The exceptions the second except clause of call() takes: the payload is
\* no JSON or no UTF-8, the document is no object or its code no integer,
\* a socket error that is no ConnectionError and no timeout, a request
\* json.dumps refuses.
Unexpected == {"ValueError", "AttributeError", "OSError", "TypeError"}
InternalErrorReturned(t) == CallReturned(t) /\ result[t].val = InternalError
\* Thread t takes the step in which its call returns the internal error.
ReturnsInternal(t) ==
  /\ StepOf(t) /\ th[t].op = "call"
  /\ result'[t] = Returned(InternalError) /\ th'[t].pc = "done"

=============================================================================
